---- MODULE Spec2Model ----
(***************************************************************************)
(* The progressive identification engine of delta2: the character/item     *)
(* matrix as stored by delta_parser.create_database, the query engine      *)
(* (query_engine.TaxonomicQueryEngine) and the filter sessions of          *)
(* delta_cli.DeltaCLI.                                                     *)
(*                                                                         *)
(* Numbers: the REAL values of the model are the reals without fractional  *)
(* part, so a real is written as the integer it equals; SQLite compares    *)
(* INTEGER and REAL numerically, and so does the model.                    *)
(* coding_completeness and selectivity_score are kept as exact fractions   *)
(* (numerator, denominator) and compared by cross-multiplication.          *)
(***************************************************************************)
EXTENDS Integers, Sequences, FiniteSets

\* ------------------------------------------------------------------ bounds
NumItems == 3
MaxChain == 2
RankItems == 6
MaxSteps == 2

VARIABLES items, characters, attr, sessions, state_file, result

vars == <<items, characters, attr, sessions, state_file, result>>

\* ------------------------------------------------------- attribute values
\* One row of item_character_attributes, as create_database fills it: exactly
\* one of the value columns, or one pseudo-value flag.  kind names the column.
Coding(k, x, y, s, t) == [kind |-> k, a |-> x, b |-> y, st |-> s, tx |-> t]

NoCoding == Coding("none", 0, 0, <<>>, "")

Pseudo(p) == Coding("pseudo", 0, 0, <<>>, p)

IntegerValue(v) == Coding("integer_value", v, 0, <<>>, "")

RealValue(v) == Coding("real_value", v, 0, <<>>, "")

TextValue(t) == Coding("text_value", 0, 0, <<>>, t)

StateValues(s) == Coding("state_values", 0, 0, s, "")

RangeValue(lo, hi) == Coding("range", lo, hi, <<>>, "")

HasRow(cd) == cd.kind # "none"

\* ica.is_unknown OR ica.is_variable OR ica.is_not_applicable
IsPseudo(cd) == cd.kind = "pseudo"

\* A filter value as Python sees it: int, float, str, list of numbers, list
\* holding a str, or any other object (a dict).
IntV(v) == Coding("int", v, 0, <<>>, "")

FloatV(v) == Coding("float", v, 0, <<>>, "")

StrV(t) == Coding("str", 0, 0, <<>>, t)

ListV(s) == Coding("list", 0, 0, s, "")

StrListV(t) == Coding("strlist", 0, 0, <<>>, t)

DictV == Coding("dict", 0, 0, <<>>, "")

SeqRange(s) == {s[k] : k \in 1..Len(s)}

\* ------------------------------------------------------------- the matrix
ItemSet == SeqRange(items)

CharSet == DOMAIN characters

\* The row of item i for character number c; no row when the character is
\* not in the characters table.
Row(i, c) == IF c \in CharSet THEN attr[i][c] ELSE NoCoding

\* ORDER BY item_name: the items' names sort in the reverse of their numbers.
NameRank(i) == 0 - i

RECURSIVE SortByName(_)
SortByName(S) ==
    IF S = {} THEN <<>>
    ELSE LET i == CHOOSE x \in S : \A y \in S : NameRank(x) <= NameRank(y)
         IN <<i>> \o SortByName(S \ {i})

\* --------------------------------------------------------------- filtering
\* value_condition of _build_character_filter_cte; a comparison with a NULL
\* column is not true.  json_extract(state_values, '$[0]') is the first state.
FirstState(cd) == IF cd.kind = "state_values" /\ Len(cd.st) > 0 THEN {cd.st[1]} ELSE {}

\* The value condition with the two bounds of a range query exclusive.
ValueConditionExclusive(cd, v) ==
    CASE v.kind = "int" ->
            \/ cd.kind = "integer_value" /\ cd.a = v.a
            \/ v.a \in FirstState(cd)
      [] v.kind = "float" -> cd.kind = "real_value" /\ cd.a = v.a
      [] v.kind = "str" -> cd.kind = "text_value" /\ cd.tx = v.tx
      [] v.kind = "list" /\ Len(v.st) = 2 ->
            \/ cd.kind = "range" /\ cd.a < v.st[2] /\ cd.b > v.st[1]
            \/ cd.kind = "integer_value" /\ v.st[1] < cd.a /\ cd.a < v.st[2]
            \/ cd.kind = "real_value" /\ v.st[1] < cd.a /\ cd.a < v.st[2]
      [] v.kind = "list" /\ Len(v.st) # 2 ->
            \/ cd.kind = "integer_value" /\ cd.a \in SeqRange(v.st)
            \/ FirstState(cd) \cap SeqRange(v.st) # {}
      [] OTHER -> TRUE

ValueCondition(cd, v) ==
    CASE v.kind = "int" ->
            \/ cd.kind = "integer_value" /\ cd.a = v.a
            \/ v.a \in FirstState(cd)
      [] v.kind = "float" -> cd.kind = "real_value" /\ cd.a = v.a
      [] v.kind = "str" -> cd.kind = "text_value" /\ cd.tx = v.tx
      [] v.kind = "list" /\ Len(v.st) = 2 ->
            \/ cd.kind = "range" /\ cd.a <= v.st[2] /\ cd.b >= v.st[1]
            \/ cd.kind = "integer_value" /\ v.st[1] <= cd.a /\ cd.a <= v.st[2]
            \/ cd.kind = "real_value" /\ v.st[1] <= cd.a /\ cd.a <= v.st[2]
      [] v.kind = "list" /\ Len(v.st) # 2 ->
            \/ cd.kind = "integer_value" /\ cd.a \in SeqRange(v.st)
            \/ FirstState(cd) \cap SeqRange(v.st) # {}
      [] OTHER -> TRUE

\* A list holding a str is spliced into the SQL unquoted: sqlite3 raises.
Raises(v) == v.kind = "strlist"

\* The filter CTE that reads base_items instead of its source CTE.
FilterCteFromBase(source, c, v) ==
    {i \in ItemSet : /\ HasRow(Row(i, c))
                     /\ ~IsPseudo(Row(i, c))
                     /\ ValueCondition(Row(i, c), v)}

\* The filter CTE without its WHERE c.character_number = ...: a row of any
\* character counts.
FilterCteOfAnyCharacter(source, c, v) ==
    {i \in source : \E x \in CharSet : /\ HasRow(Row(i, x))
                                       /\ ~IsPseudo(Row(i, x))
                                       /\ ValueCondition(Row(i, x), v)}

\* One filter CTE: the items of the source CTE with a non-pseudo row for the
\* character that satisfies the value condition.
FilterCte(source, c, v) ==
    {i \in source : /\ HasRow(Row(i, c))
                    /\ ~IsPseudo(Row(i, c))
                    /\ ValueCondition(Row(i, c), v)}

\* The chain of CTEs over base_items, left to right.
RECURSIVE FilterChain(_)
FilterChain(chain) ==
    IF chain = <<>> THEN ItemSet
    ELSE LET n == Len(chain)
         IN FilterCte(FilterChain(SubSeq(chain, 1, n - 1)), chain[n][1], chain[n][2])

\* chain[:-1]
Front(chain) == SubSeq(chain, 1, Len(chain) - 1)

ChainRaises(chain) == \E k \in 1..Len(chain) : Raises(chain[k][2])

UsedCharacters(chain) == {chain[k][1] : k \in 1..Len(chain)}

\* ----------------------------------------------------------------- ranking
\* The CASE expression without its first branch: a pseudo-value counted by
\* its letter.
CountedValueWithPseudo(cd) ==
    CASE cd.kind = "pseudo" -> {[kind |-> "text", a |-> 0, b |-> 0, st |-> <<>>, tx |-> cd.tx]}
      [] cd.kind \in {"integer_value", "real_value"} ->
            {[kind |-> "number", a |-> cd.a, b |-> 0, st |-> <<>>, tx |-> ""]}
      [] cd.kind = "text_value" -> {[kind |-> "text", a |-> 0, b |-> 0, st |-> <<>>, tx |-> cd.tx]}
      [] cd.kind = "state_values" -> {[kind |-> "json", a |-> 0, b |-> 0, st |-> cd.st, tx |-> ""]}
      [] OTHER -> {}

\* The CASE expression under COUNT(DISTINCT ...): NULL for a pseudo-value and
\* for a row with none of the four columns (a range row); INTEGER and REAL
\* compare by number, state_values by its JSON text.
CountedValue(cd) ==
    CASE IsPseudo(cd) -> {}
      [] cd.kind \in {"integer_value", "real_value"} -> {Coding("number", cd.a, 0, <<>>, "")}
      [] cd.kind = "text_value" -> {Coding("text", 0, 0, <<>>, cd.tx)}
      [] cd.kind = "state_values" -> {Coding("json", 0, 0, cd.st, "")}
      [] OTHER -> {}

\* COUNT(DISTINCT CASE ... END) over the rows of character c of the items in S.
DistinctValues(c, S) ==
    Cardinality(UNION {CountedValue(Row(i, c)) : i \in {j \in S : HasRow(Row(j, c))}})

\* COUNT(CASE WHEN NOT (pseudo) THEN 1 END): the numerator of coding_completeness.
NonPseudoCodings(c, S) ==
    Cardinality({i \in S : HasRow(Row(i, c)) /\ ~IsPseudo(Row(i, c))})

\* COUNT(ica.id): the denominator of coding_completeness, and total_codings.
TotalCodings(c, S) == Cardinality({i \in S : HasRow(Row(i, c))})

CharacterInfo(c) ==
    [number |-> c,
     distinct_values |-> DistinctValues(c, ItemSet),
     completeness_num |-> NonPseudoCodings(c, ItemSet),
     completeness_den |-> TotalCodings(c, ItemSet)]

\* HAVING with coding_completeness >= 0.5.
HavingAtLeastHalf(ci) ==
    /\ ci.completeness_den > 0
    /\ 2 * ci.completeness_num >= ci.completeness_den
    /\ ci.distinct_values > 1

\* HAVING coding_completeness > 0.5 AND distinct_values > 1; a character
\* without rows has a NULL completeness (division by zero) and is dropped.
Having(ci) ==
    /\ ci.completeness_den > 0
    /\ 2 * ci.completeness_num > ci.completeness_den
    /\ ci.distinct_values > 1

\* WHERE c.omit_from_key = FALSE AND c.mandatory = FALSE AND
\* c.character_number NOT IN (excluded_chars)
Where(c, excluded_chars) ==
    /\ ~characters[c].omit_from_key
    /\ ~characters[c].mandatory
    /\ c \notin excluded_chars

CharacterMetrics(excluded_chars) ==
    {CharacterInfo(c) : c \in {x \in CharSet : Where(x, excluded_chars) /\ Having(CharacterInfo(x))}}

\* selectivity_score = distinct_values * coding_completeness, as a fraction.
ScoreNum(ci) == ci.distinct_values * ci.completeness_num

ScoreDen(ci) == ci.completeness_den

ScoreGreater(x, y) == ScoreNum(x) * ScoreDen(y) > ScoreNum(y) * ScoreDen(x)

ScoreEqual(x, y) == ScoreNum(x) * ScoreDen(y) = ScoreNum(y) * ScoreDen(x)

\* ORDER BY selectivity_score DESC alone.
OrderedByScore(x, y) ==
    ~(ScoreNum(y) * ScoreDen(x) > ScoreNum(x) * ScoreDen(y))

\* ORDER BY selectivity_score DESC, distinct_values DESC
OrderedBefore(x, y) ==
    \/ ScoreGreater(x, y)
    \/ ScoreEqual(x, y) /\ x.distinct_values >= y.distinct_values

RECURSIVE Orderings(_)
Orderings(S) ==
    IF S = {} THEN {<<>>}
    ELSE UNION {{<<x>> \o p : p \in Orderings(S \ {x})} : x \in S}

\* The lists get_character_rankings may return: SQL leaves the order of rows
\* that tie on both sort keys open.
get_character_rankings(excluded_chars) ==
    {r \in Orderings(CharacterMetrics(excluded_chars)) :
        \A k \in 1..(Len(r) - 1) : OrderedBefore(r[k], r[k + 1])}

\* ------------------------------------------------- discriminating characters
\* The re-check without its restriction to the remaining items.
FilterOverAllItems(candidates, remaining) ==
    IF Len(remaining) <= 1 THEN <<>>
    ELSE LET Discriminates(ci) == DistinctValues(ci.number, ItemSet) > 1
         IN SelectSeq(candidates, Discriminates)

_filter_discriminating_characters(candidates, remaining) ==
    IF Len(remaining) <= 1 THEN <<>>
    ELSE LET Discriminates(ci) == DistinctValues(ci.number, SeqRange(remaining)) > 1
         IN SelectSeq(candidates, Discriminates)

\* ------------------------------------------------------------------ queries
QueryResult(m, cands) == [matching_items |-> m, character_candidates |-> cands]

\* query_items_by_character without the re-check of the candidates.
QueryWithoutRecheck(c, v, previous_filters) ==
    LET chain == Append(previous_filters, <<c, v>>)
        matching_items == SortByName(FilterChain(chain))
    IN {[matching_items |-> matching_items, character_candidates |-> r] :
           r \in get_character_rankings(UsedCharacters(chain))}

\* The results query_items_by_character may return for the chain
\* previous_filters + [(character_number, value)].
query_items_by_character(c, v, previous_filters) ==
    LET chain == Append(previous_filters, <<c, v>>)
        matching_items == SortByName(FilterChain(chain))
    IN IF matching_items = <<>>
       THEN {QueryResult(matching_items, <<>>)}
       ELSE {QueryResult(matching_items,
                         _filter_discriminating_characters(r, matching_items)) :
                r \in get_character_rankings(UsedCharacters(chain))}

\* ------------------------------------------------------------------- values
\* Text as SQLite orders it (BINARY collation): the sequence of its character
\* codes.  Codes gives the codes of the texts the matrices of this module use;
\* parse_items_file stores a text of digits as an integer_value.
Codes(t) ==
    CASE t = "a" -> <<97>>
      [] t = "b" -> <<98>>
      [] t = "c" -> <<99>>
      [] OTHER -> <<>>

RECURSIVE LexLess(_, _)
LexLess(s, t) ==
    IF s = <<>> THEN t # <<>>
    ELSE IF t = <<>> THEN FALSE
    ELSE IF s[1] # t[1] THEN s[1] < t[1]
    ELSE LexLess(Tail(s), Tail(t))

\* CAST(n AS TEXT) and str(n) of an integer n >= 0.
RECURSIVE DigitsOf(_)
DigitsOf(n) == IF n < 10 THEN <<48 + n>> ELSE DigitsOf(n \div 10) \o <<48 + (n % 10)>>

\* json.dumps of a list of state numbers: "[1, 3]".
RECURSIVE JoinStates(_)
JoinStates(st) ==
    IF st = <<>> THEN <<>>
    ELSE IF Len(st) = 1 THEN DigitsOf(st[1])
    ELSE DigitsOf(st[1]) \o <<44, 32>> \o JoinStates(Tail(st))

JsonText(st) == <<91>> \o JoinStates(st) \o <<93>>

\* value_display of a row that has a raw_value (the other rows are dropped by
\* WHERE raw_value IS NOT NULL); a REAL casts to text with its fraction.
value_display(cd) ==
    CASE cd.kind = "integer_value" -> DigitsOf(cd.a)
      [] cd.kind = "real_value" -> DigitsOf(cd.a) \o <<46, 48>>
      [] cd.kind = "text_value" -> Codes(cd.tx)
      [] cd.kind = "state_values" -> JsonText(cd.st)

\* raw_value of a row, as SQL groups by it: none (NULL) for a range row, the
\* first state of a state list.
raw_value(cd) ==
    CASE cd.kind \in {"integer_value", "real_value"} -> {Coding("number", cd.a, 0, <<>>, "")}
      [] cd.kind = "text_value" -> {Coding("text", 0, 0, <<>>, cd.tx)}
      [] cd.kind = "state_values" -> {Coding("number", s, 0, <<>>, "") : s \in FirstState(cd)}
      [] OTHER -> {}

\* str.isdigit() and int() of a text.
IsDigit(t) == Codes(t) # <<>> /\ \A k \in 1..Len(Codes(t)) : Codes(t)[k] \in 48..57

RECURSIVE IntOfCodes(_)
IntOfCodes(cs) ==
    IF cs = <<>> THEN 0 ELSE 10 * IntOfCodes(SubSeq(cs, 1, Len(cs) - 1)) + (cs[Len(cs)] - 48)

\* The Python value of the raw_value column of a row: int for INTEGER and for
\* the first state, float for REAL, str for TEXT, and int for a TEXT of digits.
PythonValue(cd) ==
    CASE cd.kind = "integer_value" -> IntV(cd.a)
      [] cd.kind = "real_value" -> FloatV(cd.a)
      [] cd.kind = "text_value" ->
            IF IsDigit(cd.tx) THEN IntV(IntOfCodes(Codes(cd.tx))) ELSE StrV(cd.tx)
      [] OTHER -> IntV(cd.st[1])

\* item_numbers is optional: None, or a list of item numbers.
None == {}

Some(x) == {x}

\* "if item_numbers:" -- None and the empty list both leave the filter out.
ItemFilter(item_numbers) ==
    IF item_numbers = None THEN ItemSet
    ELSE LET given == CHOOSE x \in item_numbers : TRUE
         IN IF given = {} THEN ItemSet ELSE given \cap ItemSet

\* The states of a character: get_character_info reads them for the types UM
\* and OM only, and an empty dict counts as no states.
CharacterStates(c) ==
    IF c \in CharSet /\ "states" \in DOMAIN characters[c]
       /\ characters[c].character_type \in {"UM", "OM"}
    THEN characters[c].states
    ELSE <<>>

\* The rows of the CTE character_values with a raw_value that is not NULL.
ValueRows(c, item_numbers) ==
    {i \in ItemFilter(item_numbers) :
        /\ HasRow(Row(i, c))
        /\ ~IsPseudo(Row(i, c))
        /\ raw_value(Row(i, c)) # {}}

\* GROUP BY raw_value, value_display: one group per pair, with its rows.
ValueGroup(c, item_numbers, i) ==
    [raw |-> raw_value(Row(i, c)),
     display |-> value_display(Row(i, c)),
     value |-> PythonValue(Row(i, c)),
     item_count |-> Cardinality({j \in ValueRows(c, item_numbers) :
                                    /\ raw_value(Row(j, c)) = raw_value(Row(i, c))
                                    /\ value_display(Row(j, c)) = value_display(Row(i, c))})]

ValueGroups(c, item_numbers) ==
    {ValueGroup(c, item_numbers, i) : i \in ValueRows(c, item_numbers)}

\* ORDER BY item_count DESC, value_display
GroupOrderedBefore(x, y) ==
    \/ x.item_count > y.item_count
    \/ x.item_count = y.item_count /\ ~LexLess(y.display, x.display)

\* The (value, description, count) tuple of a group: the description is the
\* value_display, or "<value>. <state description>" when the character has
\* states and the value is an int that is one of them.
ValueEntry(c, g) ==
    [value |-> g.value,
     description |->
        IF /\ CharacterStates(c) # <<>>
           /\ g.value.kind = "int"
           /\ g.value.a \in DOMAIN CharacterStates(c)
        THEN DigitsOf(g.value.a) \o <<46, 32>> \o Codes(CharacterStates(c)[g.value.a])
        ELSE g.display,
     item_count |-> g.item_count]

\* The lists get_character_values may return: SQL leaves the order of groups
\* that tie on item_count and value_display open.
get_character_values(c, item_numbers) ==
    {[k \in 1..Len(r) |-> ValueEntry(c, r[k])] :
        r \in {o \in Orderings(ValueGroups(c, item_numbers)) :
                  \A k \in 1..(Len(o) - 1) : GroupOrderedBefore(o[k], o[k + 1])}}

\* What get_character_values returned for a character and an item list.
ValuesReturned(c, item_numbers, vals) ==
    [op |-> "values", character |-> c, item_numbers |-> item_numbers, values |-> vals]

\* engine.get_character_values(character_number, item_numbers), called directly.
GetCharacterValues(c, item_numbers) ==
    /\ \E vals \in get_character_values(c, item_numbers) :
          result' = ValuesReturned(c, item_numbers, vals)
    /\ UNCHANGED <<items, characters, attr, sessions, state_file>>

\* ----------------------------------------------------------------- sessions
\* FilterState: the filters (character number, value) in the order they were
\* added, the current items and the available characters.
FilterState(f, ci, av) == [filters |-> f, current_items |-> ci, available_characters |-> av]

\* json.dump and json.load of a filter value: an int is written as a number
\* without a fraction, a float as a number with one ("1.0"), a str as a
\* string, a list as an array and a dict as an object; each is read back as
\* what it is written as.
JsonKind(kind) ==
    CASE kind = "int" -> "number"
      [] kind = "float" -> "number_with_fraction"
      [] kind = "str" -> "string"
      [] kind = "list" -> "array"
      [] kind = "strlist" -> "array_of_string"
      [] OTHER -> "object"

PythonKind(json_kind) ==
    CASE json_kind = "number" -> "int"
      [] json_kind = "number_with_fraction" -> "float"
      [] json_kind = "string" -> "str"
      [] json_kind = "array" -> "list"
      [] json_kind = "array_of_string" -> "strlist"
      [] OTHER -> "dict"

\* A writer that gives a float without a fraction part as an integer ("1").
JsonDumpShortest(v) == [v EXCEPT !.kind = IF @ = "float" THEN "number" ELSE JsonKind(@)]

JsonDump(v) == [v EXCEPT !.kind = JsonKind(@)]

JsonLoad(j) == [j EXCEPT !.kind = PythonKind(@)]

\* FilterState.to_dict, as the state file holds it.
to_dict(fs) ==
    [filters |-> [k \in 1..Len(fs.filters) |->
                     [character_number |-> fs.filters[k][1],
                      value |-> JsonDump(fs.filters[k][2])]],
     current_items |-> fs.current_items,
     remaining_count |-> Len(fs.current_items),
     available_characters |-> fs.available_characters]

\* FilterState.from_dict on a new FilterState: the filters and the current
\* items are read, the available characters are not.
from_dict(data) ==
    FilterState([k \in 1..Len(data.filters) |->
                    <<data.filters[k].character_number, JsonLoad(data.filters[k].value)>>],
                data.current_items, <<>>)

\* A state file: absent, or holding one dictionary.
NoFile == <<>>

\* DeltaCLI._save_state: the file is written anew.
_save_state(fs) == <<to_dict(fs)>>

\* DeltaCLI._load_state into a new FilterState.
_load_state(file) == IF file = NoFile THEN FilterState(<<>>, <<>>, <<>>) ELSE from_dict(file[1])

\* What an operation returned.  chain is the filter chain the answer was
\* computed for, items the item list and candidates the character list it
\* carries; a proposal's character is the head of candidates.
Returned(op, sid, status, chain, excl, its, cands) ==
    [op |-> op, session |-> sid, status |-> status, chain |-> chain,
     exclude |-> excl, items |-> its, candidates |-> cands]

\* A successful proposal: the character is the head of candidates, and
\* possible_values are its values among the current items.
Proposal(sid, chain, excl, its, cands, vals) ==
    [op |-> "propose", session |-> sid, status |-> "success", chain |-> chain,
     exclude |-> excl, items |-> its, candidates |-> cands, possible_values |-> vals]

NoResult == Returned("none", "", "none", <<>>, {}, <<>>, <<>>)

\* engine.get_character_rankings(excluded_chars), called directly.
GetCharacterRankings(excluded_chars) ==
    /\ \E r \in get_character_rankings(excluded_chars) :
          result' = Returned("rank", "", "success", <<>>, excluded_chars, <<>>, r)
    /\ UNCHANGED <<items, characters, attr, sessions, state_file>>

\* engine.query_items_by_character(character_number, value, previous_filters),
\* called directly: sqlite3 raises on a list holding a str.
QueryItemsByCharacter(c, v, previous_filters) ==
    LET chain == Append(previous_filters, <<c, v>>)
    IN /\ IF ChainRaises(chain)
          THEN result' = Returned("query", "", "raised", chain, {}, <<>>, <<>>)
          ELSE \E q \in query_items_by_character(c, v, previous_filters) :
                  result' = Returned("query", "", "success", chain, {},
                                     q.matching_items, q.character_candidates)
       /\ UNCHANGED <<items, characters, attr, sessions, state_file>>

\* The filters of a session as the engine takes them: the last one as the
\* current clause, the others as previous_filters.
QueryChain(chain) ==
    query_items_by_character(chain[Len(chain)][1], chain[Len(chain)][2],
                             SubSeq(chain, 1, Len(chain) - 1))

KeepAll(candidates, exclude_chars) == candidates

ExcludeFrom(candidates, exclude_chars) ==
    LET Kept(ci) == ci.number \notin exclude_chars
    IN SelectSeq(candidates, Kept)

\* DeltaCLI.propose_character(exclude_chars)
ProposeCharacter(sid, exclude_chars) ==
    LET fs == sessions[sid]
    IN /\ \E q \in (IF fs.filters # <<>>
                    THEN QueryChain(fs.filters)
                    ELSE {QueryResult(items, r) : r \in get_character_rankings({})}) :
            LET candidates == ExcludeFrom(q.character_candidates, exclude_chars)
            IN /\ sessions' = [sessions EXCEPT ![sid] =
                                  FilterState(fs.filters, q.matching_items, candidates)]
               /\ IF candidates = <<>>
                  THEN result' = Returned("propose", sid, "no_candidates", fs.filters,
                                          exclude_chars, q.matching_items, candidates)
                  ELSE \E possible_values \in
                              get_character_values(candidates[1].number,
                                                   Some(SeqRange(q.matching_items))) :
                          result' = Proposal(sid, fs.filters, exclude_chars, q.matching_items,
                                             candidates, possible_values)
       /\ UNCHANGED <<items, characters, attr, state_file>>

\* add_filter with the filter appended before the character is looked up.
AddFilterBeforeLookup(sid, char_num, value) ==
    LET fs == sessions[sid]
        chain == Append(fs.filters, <<char_num, value>>)
    IN /\ Len(fs.filters) < MaxChain
       /\ IF char_num \notin CharSet \/ ChainRaises(chain)
          THEN /\ result' = Returned("add_filter", sid, "error", chain, {}, <<>>, <<>>)
               /\ sessions' = [sessions EXCEPT ![sid] =
                                  FilterState(chain, fs.current_items, fs.available_characters)]
               /\ UNCHANGED state_file
          ELSE \E q \in QueryChain(chain) :
               LET added == FilterState(chain, q.matching_items, q.character_candidates)
               IN /\ sessions' = [sessions EXCEPT ![sid] = added]
                  /\ state_file' = [state_file EXCEPT ![sid] = _save_state(added)]
                  /\ result' = Returned("add_filter", sid, "success", chain, {},
                                        q.matching_items, q.character_candidates)
       /\ UNCHANGED <<items, characters, attr>>

\* DeltaCLI.add_filter(char_num, value)
AddFilter(sid, char_num, value) ==
    LET fs == sessions[sid]
        chain == Append(fs.filters, <<char_num, value>>)
    IN /\ Len(fs.filters) < MaxChain
       /\ IF char_num \notin CharSet
          THEN \* get_character_info returns None
               /\ result' = Returned("add_filter", sid, "error", chain, {}, <<>>, <<>>)
               /\ UNCHANGED <<sessions, state_file>>
          ELSE IF ChainRaises(chain)
          THEN \* the query raises: the filter is removed again
               /\ result' = Returned("add_filter", sid, "error", chain, {}, <<>>, <<>>)
               /\ UNCHANGED <<sessions, state_file>>
          ELSE \E q \in QueryChain(chain) :
               LET added == FilterState(chain, q.matching_items, q.character_candidates)
               IN /\ sessions' = [sessions EXCEPT ![sid] = added]
                  /\ state_file' = [state_file EXCEPT ![sid] = _save_state(added)]
                  /\ result' = Returned("add_filter", sid, "success", chain, {},
                                        q.matching_items, q.character_candidates)
       /\ UNCHANGED <<items, characters, attr>>

\* DeltaCLI.show_state, and GET /api/items which returns its current_items
\* and remaining_count.
ShowState(sid) ==
    LET state_dict == to_dict(sessions[sid])
    IN /\ result' = [op |-> "state", session |-> sid, status |-> "success",
                     chain |-> sessions[sid].filters, exclude |-> {},
                     items |-> state_dict.current_items,
                     candidates |-> state_dict.available_characters,
                     remaining_count |-> state_dict.remaining_count]
       /\ UNCHANGED <<items, characters, attr, sessions, state_file>>

\* A reset that clears the filter state of every session of the server.
ResetEverySession(sid) ==
    LET cleared == FilterState(<<>>, <<>>, <<>>)
    IN /\ sessions' = [s \in DOMAIN sessions |-> cleared]
       /\ state_file' = [state_file EXCEPT ![sid] = _save_state(cleared)]
       /\ result' = Returned("reset", sid, "success", <<>>, {}, <<>>, <<>>)
       /\ UNCHANGED <<items, characters, attr>>

\* DeltaCLI.reset_filters: clear_filters empties the three lists, then the
\* state is saved.
ResetFilters(sid) ==
    LET cleared == FilterState(<<>>, <<>>, <<>>)
    IN /\ sessions' = [sessions EXCEPT ![sid] = cleared]
       /\ state_file' = [state_file EXCEPT ![sid] = _save_state(cleared)]
       /\ result' = Returned("reset", sid, "success", <<>>, {}, <<>>, <<>>)
       /\ UNCHANGED <<items, characters, attr>>

\* An undo that recomputes the state for the whole chain, the removed filter
\* included.
UndoneKeepingLast(fs) ==
    {FilterState(Front(fs.filters), q.matching_items, q.character_candidates) :
        q \in QueryChain(fs.filters)}

\* The states undo_last_filter may leave after removing the last filter of a
\* chain whose remaining filters the engine can query.
Undone(fs) ==
    LET chain == Front(fs.filters)
    IN IF chain # <<>>
       THEN {FilterState(chain, q.matching_items, q.character_candidates) :
                q \in QueryChain(chain)}
       ELSE {FilterState(chain, items, r) : r \in get_character_rankings({})}

\* DeltaCLI.undo_last_filter
UndoLastFilter(sid) ==
    LET fs == sessions[sid]
    IN /\ IF fs.filters = <<>>
          THEN /\ result' = Returned("undo", sid, "error", <<>>, {}, <<>>, <<>>)
               /\ UNCHANGED <<sessions, state_file>>
          ELSE IF ChainRaises(Front(fs.filters))
          THEN \* the query raises after the filter was removed: nothing is saved
               /\ sessions' = [sessions EXCEPT ![sid] =
                                  FilterState(Front(fs.filters), fs.current_items,
                                              fs.available_characters)]
               /\ result' = Returned("undo", sid, "raised", Front(fs.filters), {}, <<>>, <<>>)
               /\ UNCHANGED state_file
          ELSE \E undone \in Undone(fs) :
               /\ sessions' = [sessions EXCEPT ![sid] = undone]
               /\ state_file' = [state_file EXCEPT ![sid] = _save_state(undone)]
               /\ result' = Returned("undo", sid, "success", undone.filters, {},
                                     undone.current_items, undone.available_characters)
       /\ UNCHANGED <<items, characters, attr>>

\* A new DeltaCLI for the session's state file: the next command line
\* invocation, or get_session in a new server process.
NewDeltaCLI(sid) ==
    LET loaded == _load_state(state_file[sid])
    IN /\ sessions' = [sessions EXCEPT ![sid] = loaded]
       /\ result' = Returned("load", sid, "success", loaded.filters, {},
                             loaded.current_items, loaded.available_characters)
       /\ UNCHANGED <<items, characters, attr, state_file>>

\* --------------------------------------------------------- identification key
\* KeyStep: the character of a step, its possible values and the number of
\* items that remained when the step was made.
KeyStep(ch, vals, n) == [character |-> ch, possible_values |-> vals, remaining_items |-> n]

\* A call of generate_identification_key(max_steps) in progress: step counts
\* the iterations of "for step in range(max_steps)" that ran to their end,
\* done says that the call has returned key_steps.
KeyRun(max_steps, step, current_filters, key_steps, done) ==
    [op |-> "key", max_steps |-> max_steps, step |-> step,
     current_filters |-> current_filters, key_steps |-> key_steps, done |-> done]

\* A loop that never runs out of steps.
NeverExhausted(step, max_steps) == FALSE

\* A loop over range(max_steps - 1).
ExhaustedOneEarly(step, max_steps) == step + 1 >= max_steps

\* range(max_steps) is exhausted.
Exhausted(step, max_steps) == step >= max_steps

\* engine.generate_identification_key(max_steps) is called.
GenerateIdentificationKey(max_steps) ==
    /\ result.op = "none"
    /\ result' = KeyRun(max_steps, 0, <<>>, <<>>, FALSE)
    /\ UNCHANGED <<items, characters, attr, sessions, state_file>>

\* remaining_items counted over all items, whatever the filters.
RemainingOfAllItems(current_filters) == Len(items)

\* remaining_items of an iteration: the items matching current_filters, all
\* items (COUNT(*) FROM items) when there is no filter yet.
RemainingItems(current_filters) ==
    IF current_filters # <<>>
    THEN Cardinality(FilterChain(current_filters))
    ELSE Len(items)

\* The loop body of generate_identification_key, once, or its return when
\* range(max_steps) is exhausted: the runs the call may be in afterwards.
KeyOutcomes(run) ==
    LET current_filters == run.current_filters
        remaining_items == RemainingItems(current_filters)
        used_chars == UsedCharacters(current_filters)
        current_items == IF current_filters # <<>>
                         THEN Some(FilterChain(current_filters))
                         ELSE None
        Return == KeyRun(run.max_steps, run.step, current_filters, run.key_steps, TRUE)
        StepWith(best_char, possible_values) ==
            LET key_steps == Append(run.key_steps,
                                    KeyStep(best_char, possible_values, remaining_items))
            IN IF possible_values # <<>>
               THEN KeyRun(run.max_steps, run.step + 1,
                           Append(current_filters,
                                  <<best_char.number, possible_values[1].value>>),
                           key_steps, FALSE)
               ELSE KeyRun(run.max_steps, run.step, current_filters, key_steps, TRUE)
    IN IF Exhausted(run.step, run.max_steps) THEN {Return}
       ELSE IF remaining_items <= 1 THEN {Return}
       ELSE UNION {IF candidates = <<>> THEN {Return}
                   ELSE {StepWith(candidates[1], possible_values) :
                            possible_values \in get_character_values(candidates[1].number,
                                                                     current_items)} :
                      candidates \in get_character_rankings(used_chars)}

KeyIteration ==
    /\ result.op = "key"
    /\ ~result.done
    /\ result' \in KeyOutcomes(result)
    /\ UNCHANGED <<items, characters, attr, sessions, state_file>>

\* ------------------------------------------------------------ auto workflow
\* A call of the API's auto_workflow for a session in progress: step counts
\* the iterations of "for step in range(max_steps)" that ran to their end,
\* steps is the list the call builds.
AutoRun(sid, max_steps, step, steps, done) ==
    [op |-> "auto", session |-> sid, max_steps |-> max_steps, step |-> step,
     steps |-> steps, done |-> done]

AutoStep(ch, v, n) == [character |-> ch, selected_value |-> v, remaining_items |-> n]

\* POST /api/workflow/auto: the session's filters are reset first.
AutoWorkflow(sid, max_steps) ==
    /\ result.op = "none"
    /\ sessions' = [sessions EXCEPT ![sid] = FilterState(<<>>, <<>>, <<>>)]
    /\ state_file' = [state_file EXCEPT ![sid] = _save_state(FilterState(<<>>, <<>>, <<>>))]
    /\ result' = AutoRun(sid, max_steps, 0, <<>>, FALSE)
    /\ UNCHANGED <<items, characters, attr>>

\* The loop body of auto_workflow, once (propose_character, then add_filter
\* with the first possible value), or the end of the loop: the run and the
\* session the call may leave.  The values that get_character_values returns
\* never make the query raise.
AutoOutcomes(run, fs) ==
    LET sid == run.session
        Return == AutoRun(sid, run.max_steps, run.step, run.steps, TRUE)
        Proposals == IF fs.filters # <<>>
                     THEN QueryChain(fs.filters)
                     ELSE {QueryResult(items, r) : r \in get_character_rankings({})}
        Proposed(q) == FilterState(fs.filters, q.matching_items, q.character_candidates)
        Added(q, first_value) ==
            LET chain == Append(fs.filters, <<q.character_candidates[1].number, first_value>>)
            IN {[run |-> AutoRun(sid, run.max_steps,
                                 IF Len(added.matching_items) <= 1 THEN run.step
                                 ELSE run.step + 1,
                                 Append(run.steps,
                                        AutoStep(q.character_candidates[1].number, first_value,
                                                 Len(added.matching_items))),
                                 Len(added.matching_items) <= 1),
                 session |-> FilterState(chain, added.matching_items,
                                         added.character_candidates)] :
                   added \in QueryChain(chain)}
        AfterProposal(q) ==
            IF q.character_candidates = <<>>
            THEN {[run |-> Return, session |-> Proposed(q)]}
            ELSE UNION {IF possible_values = <<>>
                        THEN {[run |-> Return, session |-> Proposed(q)]}
                        ELSE Added(q, possible_values[1].value) :
                           possible_values \in
                               get_character_values(q.character_candidates[1].number,
                                                    Some(SeqRange(q.matching_items)))}
    IN IF Exhausted(run.step, run.max_steps)
       THEN {[run |-> Return, session |-> fs]}
       ELSE UNION {AfterProposal(q) : q \in Proposals}

AutoIteration ==
    /\ result.op = "auto"
    /\ ~result.done
    /\ \E next \in AutoOutcomes(result, sessions[result.session]) :
          /\ result' = next.run
          /\ sessions' = [sessions EXCEPT ![result.session] = next.session]
          /\ state_file' = IF next.session.filters # sessions[result.session].filters
                           THEN [state_file EXCEPT ![result.session] = _save_state(next.session)]
                           ELSE state_file
    /\ UNCHANGED <<items, characters, attr>>

\* ------------------------------------------------------------ specifications
\* The character numbers of the matrix.
Chars == {1, 2}

\* A character number that is in no characters table.
AbsentChar == 99999

Plain == [mandatory |-> FALSE, omit_from_key |-> FALSE]

Mandatory == [mandatory |-> TRUE, omit_from_key |-> FALSE]

Omitted == [mandatory |-> FALSE, omit_from_key |-> TRUE]

NewSession == FilterState(<<>>, <<>>, <<>>)

\* The session specification: a matrix of up to NumItems items and the two
\* characters, and one session that proposes and adds filters.
MainCodings == <<NoCoding, Pseudo("U"), IntegerValue(1), IntegerValue(2)>>

SecondCodings == {Pseudo("V"), IntegerValue(1), IntegerValue(2)}

\* The columns of character 1 over n items: one per multiset of codings (the
\* items are interchangeable up to their order), in the order of MainCodings.
FirstColumns(n) ==
    {[i \in 1..n |-> MainCodings[f[i]]] :
        f \in {g \in [1..n -> 1..Len(MainCodings)] :
                  \A i \in 1..(n - 1) : g[i] <= g[i + 1]}}

OtherColumns(n) == [1..n -> SecondCodings]

Init ==
    /\ \E n \in 0..NumItems :
          /\ items = [k \in 1..n |-> k]
          /\ \E first \in FirstColumns(n) : \E others \in [Chars \ {1} -> OtherColumns(n)] :
                attr = [i \in 1..n |->
                           [c \in Chars |-> IF c = 1 THEN first[i] ELSE others[c][i]]]
    /\ characters = [c \in Chars |-> Plain]
    /\ sessions = [sid \in {"default"} |-> NewSession]
    /\ state_file = [sid \in {"default"} |-> NoFile]
    /\ result = NoResult

Next ==
    \E sid \in DOMAIN sessions :
        \/ \E ex \in SUBSET Chars : ProposeCharacter(sid, ex)
        \/ \E c \in Chars : AddFilter(sid, c, IntV(1))
        \/ AddFilter(sid, 1, DictV)
        \/ AddFilter(sid, AbsentChar, IntV(1))

Spec == Init /\ [][Next]_vars

\* The ranking specification: RankItems items, and every column one multiset
\* of codings over no row, a pseudo-value and up to three integer values (the
\* values named so that 1 is at least as frequent as 2, and 2 as 3).
RankCodings == <<NoCoding, Pseudo("U"), IntegerValue(1), IntegerValue(2), IntegerValue(3)>>

Occurrences(g, k) == Cardinality({i \in DOMAIN g : g[i] = k})

RankColumns ==
    {[i \in 1..RankItems |-> RankCodings[f[i]]] :
        f \in {g \in [1..RankItems -> 1..Len(RankCodings)] :
                  /\ \A i \in 1..(RankItems - 1) : g[i] <= g[i + 1]
                  /\ Occurrences(g, 3) >= Occurrences(g, 4)
                  /\ Occurrences(g, 4) >= Occurrences(g, 5)}}

InitRank ==
    /\ items = [k \in 1..RankItems |-> k]
    /\ characters \in [Chars -> {Plain, Mandatory, Omitted}]
    /\ \E cols \in [Chars -> RankColumns] :
          attr = [i \in 1..RankItems |-> [c \in Chars |-> cols[c][i]]]
    /\ sessions = [sid \in {"default"} |-> NewSession]
    /\ state_file = [sid \in {"default"} |-> NoFile]
    /\ result = NoResult

NextRank == \E ex \in SUBSET Chars : GetCharacterRankings(ex)

SpecRank == InitRank /\ [][NextRank]_vars

\* The filter specification: one character, two items coded with every kind
\* of value, and filters of every shape of value.
FilterCodings ==
    {NoCoding, Pseudo("U"), Pseudo("V"), Pseudo("-"),
     IntegerValue(1), IntegerValue(2), RealValue(1), RealValue(3),
     TextValue("a"), TextValue("b"),
     StateValues(<<1, 3>>), StateValues(<<3, 1>>), StateValues(<<2, 4>>),
     RangeValue(1, 2), RangeValue(4, 5)}

FilterValues ==
    {IntV(1), IntV(2), IntV(3), FloatV(1), FloatV(3), StrV("a"), StrV("b"),
     ListV(<<>>), ListV(<<3>>), ListV(<<1, 3>>), ListV(<<3, 4>>), ListV(<<3, 4, 5>>),
     StrListV("a"), DictV}

InitFilter ==
    /\ items = <<1, 2>>
    /\ characters = [c \in {1} |-> Plain]
    /\ \E col \in [1..2 -> FilterCodings] : attr = [i \in 1..2 |-> [c \in {1} |-> col[i]]]
    /\ sessions = [sid \in {"default"} |-> NewSession]
    /\ state_file = [sid \in {"default"} |-> NoFile]
    /\ result = NoResult

NextFilter ==
    \E c \in {1, AbsentChar} : \E v \in FilterValues : AddFilter("default", c, v)

SpecFilter == InitFilter /\ [][NextFilter]_vars

\* The engine specification: the matrices of the filter specification, and
\* direct calls of query_items_by_character with at most one previous filter
\* and of get_character_values, for the character and for an absent one.
PreviousFilters ==
    {<<>>} \cup {<<<<c, v>>>> : c \in {1, AbsentChar}, v \in {IntV(1), ListV(<<1, 3>>)}}

NextEngine ==
    \/ \E c \in {1, AbsentChar} : \E v \in FilterValues : \E previous_filters \in PreviousFilters :
          QueryItemsByCharacter(c, v, previous_filters)
    \/ \E c \in {1, AbsentChar} : \E item_numbers \in {None, Some({1}), Some({1, 2})} :
          GetCharacterValues(c, item_numbers)

SpecEngine == InitFilter /\ [][NextEngine]_vars

\* The values specification: one character, with or without state
\* descriptions, NumItems items coded with every kind of value, and calls of
\* get_character_values and get_character_rankings.
ValueCodings ==
    {NoCoding, Pseudo("U"),
     IntegerValue(1), IntegerValue(2), IntegerValue(3), RealValue(1),
     TextValue("a"), TextValue("b"),
     StateValues(<<1, 3>>), StateValues(<<3, 1>>), StateValues(<<2, 3>>),
     RangeValue(1, 2), RangeValue(4, 5)}

Multistate ==
    [mandatory |-> FALSE, omit_from_key |-> FALSE, character_type |-> "UM",
     states |-> [n \in {2, 3} |-> IF n = 2 THEN "b" ELSE "c"]]

TextCharacter ==
    [mandatory |-> FALSE, omit_from_key |-> FALSE, character_type |-> "TE", states |-> <<>>]

ItemLists == {None} \cup {Some(S) : S \in SUBSET (1..NumItems)}

InitValues ==
    /\ items = [k \in 1..NumItems |-> k]
    /\ characters \in [{1} -> {Multistate, TextCharacter}]
    /\ \E col \in [1..NumItems -> ValueCodings] :
          attr = [i \in 1..NumItems |-> [c \in {1} |-> col[i]]]
    /\ sessions = [sid \in {"default"} |-> NewSession]
    /\ state_file = [sid \in {"default"} |-> NoFile]
    /\ result = NoResult

NextValues ==
    \/ \E item_numbers \in ItemLists : GetCharacterValues(1, item_numbers)
    \/ GetCharacterValues(AbsentChar, None)
    \/ GetCharacterRankings({})

SpecValues == InitValues /\ [][NextValues]_vars

\* The key specification: up to KeyItems items and the two characters, a
\* session that is new or was loaded from its state file with one filter, and
\* one call of generate_identification_key or of auto_workflow with max_steps
\* up to MaxSteps.  The column of character 1 is one multiset of codings.
KeyFirstCodings == <<NoCoding, Pseudo("U"), IntegerValue(1), IntegerValue(2)>>

KeySecondCodings == {IntegerValue(1), IntegerValue(2)}

KeyFirstColumns(n) ==
    {[i \in 1..n |-> KeyFirstCodings[f[i]]] :
        f \in {g \in [1..n -> 1..Len(KeyFirstCodings)] :
                  \A i \in 1..(n - 1) : g[i] <= g[i + 1]}}

LoadedSession ==
    FilterState(<<<<1, IntV(1)>>>>, SortByName(FilterChain(<<<<1, IntV(1)>>>>)), <<>>)

\* The key specification has matrices of one item more than the others.
KeyItems == NumItems + 1

InitKey ==
    /\ \E n \in 0..KeyItems :
          /\ items = [k \in 1..n |-> k]
          /\ \E first \in KeyFirstColumns(n) : \E second \in [1..n -> KeySecondCodings] :
                attr = [i \in 1..n |-> [c \in Chars |-> IF c = 1 THEN first[i] ELSE second[i]]]
    /\ characters = [c \in Chars |-> Plain]
    /\ state_file \in [{"default"} -> {NoFile, _save_state(LoadedSession)}]
    /\ sessions = [sid \in {"default"} |-> _load_state(state_file[sid])]
    /\ result = NoResult

NextKey ==
    \/ \E max_steps \in 0..MaxSteps : GenerateIdentificationKey(max_steps)
    \/ KeyIteration
    \/ \E max_steps \in 0..MaxSteps : AutoWorkflow("default", max_steps)
    \/ AutoIteration

SpecKey == InitKey /\ [][NextKey]_vars

\* A call whose loop has not ended.
KeyPending == result.op = "key" /\ ~result.done

AutoPending == result.op = "auto" /\ ~result.done

\* Each loop body can run exactly while its call is pending (an invariant of
\* SpecKey), so weak fairness of the loop bodies,
\* WF_vars(KeyIteration) /\ WF_vars(AutoIteration), is KeyLoopFair /\ AutoLoopFair.
LoopEnabledWhilePending ==
    /\ (ENABLED <<KeyIteration>>_vars) <=> KeyPending
    /\ (ENABLED <<AutoIteration>>_vars) <=> AutoPending

KeyLoopFair == []<>(~KeyPending) \/ []<><<KeyIteration>>_vars

AutoLoopFair == []<>(~AutoPending) \/ []<><<AutoIteration>>_vars

\* The loop of a call runs on until the call returns: a Python for loop over
\* range(max_steps) in one thread, with nothing in it that blocks.
SpecKeyLive == SpecKey /\ KeyLoopFair /\ AutoLoopFair

\* The session specification with state: up to NumItems items and the two
\* characters, one session with its state file, and every session operation;
\* a filter value is an int, a float or a str, as the command line gives them.
SessionValues == {IntV(1), FloatV(1), StrV("a")}

InitSession ==
    /\ \E n \in 0..NumItems :
          /\ items = [k \in 1..n |-> k]
          /\ \E first \in KeyFirstColumns(n) : \E second \in [1..n -> KeySecondCodings] :
                attr = [i \in 1..n |-> [c \in Chars |-> IF c = 1 THEN first[i] ELSE second[i]]]
    /\ characters = [c \in Chars |-> Plain]
    /\ state_file = [sid \in {"default"} |-> NoFile]
    /\ sessions = [sid \in {"default"} |-> _load_state(state_file[sid])]
    /\ result = NoResult

NextSession ==
    \/ ProposeCharacter("default", {})
    \/ \E c \in Chars \cup {AbsentChar} : \E v \in SessionValues : AddFilter("default", c, v)
    \/ UndoLastFilter("default")
    \/ ResetFilters("default")
    \/ ShowState("default")
    \/ NewDeltaCLI("default")

SpecSession == InitSession /\ [][NextSession]_vars

\* The proposal specification: up to NumItems items, character 1 coded with
\* integers and the multistate character 2 coded with integers, state lists
\* and a pseudo-value; one session that proposes and adds filters, one of
\* them the list of the two states 1 and 3 of character 2.
ProposalCodings == {Pseudo("U"), IntegerValue(1), IntegerValue(2),
                    StateValues(<<1, 3>>), StateValues(<<2, 3>>)}

InitProposal ==
    /\ \E n \in 0..NumItems :
          /\ items = [k \in 1..n |-> k]
          /\ \E first \in [1..n -> KeySecondCodings] : \E second \in [1..n -> ProposalCodings] :
                attr = [i \in 1..n |-> [c \in Chars |-> IF c = 1 THEN first[i] ELSE second[i]]]
    /\ characters = [c \in Chars |-> IF c = 1 THEN Plain ELSE Multistate]
    /\ state_file = [sid \in {"default"} |-> NoFile]
    /\ sessions = [sid \in {"default"} |-> NewSession]
    /\ result = NoResult

NextProposal ==
    \/ ProposeCharacter("default", {})
    \/ \E c \in Chars : \E v \in {IntV(1), IntV(2)} : AddFilter("default", c, v)
    \/ AddFilter("default", 2, ListV(<<1, 3>>))

SpecProposal == InitProposal /\ [][NextProposal]_vars

\* The largest number of items of a matrix of the isolation specification.
IsolationItems == 2

\* The isolation specification: the matrices of the key specification with
\* up to IsolationItems items, two sessions of the API, each new or loaded from
\* its state file with one filter, and the requests of the API on either
\* session.  A request on one session may arrive between two iterations of
\* the other's automatic workflow.
SessionIds == {"default", "other"}

InitIsolation ==
    /\ \E n \in 0..IsolationItems :
          /\ items = [k \in 1..n |-> k]
          /\ \E first \in KeyFirstColumns(n) : \E second \in [1..n -> KeySecondCodings] :
                attr = [i \in 1..n |-> [c \in Chars |-> IF c = 1 THEN first[i] ELSE second[i]]]
    /\ characters = [c \in Chars |-> Plain]
    /\ state_file \in [SessionIds -> {NoFile, _save_state(LoadedSession)}]
    /\ sessions = [sid \in SessionIds |-> _load_state(state_file[sid])]
    /\ result = NoResult

NextIsolation ==
    \/ \E sid \in SessionIds :
          \/ ProposeCharacter(sid, {})
          \/ \E c \in Chars : AddFilter(sid, c, IntV(1))
          \/ UndoLastFilter(sid)
          \/ ResetFilters(sid)
          \/ \E max_steps \in 1..MaxSteps : AutoWorkflow(sid, max_steps)
    \/ AutoIteration

SpecIsolation == InitIsolation /\ [][NextIsolation]_vars

\* ------------------------------------------------------------------- claims
Survivors(chain) == FilterChain(chain)

FromChain == result.op \in {"propose", "add_filter"} /\ result.status # "error"

\* C1: Monotonic narrowing.  The items returned for a chain extended by one
\* clause are among the items of the chain without that clause (all items for
\* the empty chain), and are no more than they.
C1_MonotonicNarrowing ==
    (result.op = "add_filter" /\ result.status = "success") =>
        /\ SeqRange(result.items) \subseteq Survivors(Front(result.chain))
        /\ Len(result.items) <= Cardinality(Survivors(Front(result.chain)))

C1_Witness ==
    /\ result.op = "add_filter" /\ result.status = "success"
    /\ Len(result.chain) = 2
    /\ Len(result.items) > 0
    /\ Len(result.items) < Cardinality(Survivors(Front(result.chain)))
    /\ Cardinality(Survivors(Front(result.chain))) < Len(items)

PseudoCoded(c) == {i \in ItemSet : IsPseudo(Row(i, c))}

\* C2: Pseudo-value exclusion.  No returned item has a pseudo-value for a
\* character of the chain, whatever the values of the clauses; and the
\* distinct_values and the numerator of coding_completeness of every returned
\* character are what they are without the items coded with a pseudo-value.
C2_PseudoValueExclusion ==
    FromChain =>
        /\ \A k \in 1..Len(result.chain) : \A i \in SeqRange(result.items) :
              i \notin PseudoCoded(result.chain[k][1])
        /\ \A k \in 1..Len(result.candidates) :
              LET ci == result.candidates[k]
                  coded == ItemSet \ PseudoCoded(ci.number)
              IN /\ ci.distinct_values = DistinctValues(ci.number, coded)
                 /\ ci.completeness_num = NonPseudoCodings(ci.number, coded)
                 /\ ci.completeness_num =
                       Cardinality({i \in coded : Row(i, ci.number).kind # "none"})

C2_Witness ==
    /\ result.op = "add_filter" /\ result.status = "success"
    /\ result.chain[1][2] = DictV
    /\ PseudoCoded(result.chain[1][1]) # {}
    /\ result.items # <<>>
    /\ result.candidates # <<>>
    /\ PseudoCoded(result.candidates[1].number) # {}

Numbers(cands) == {cands[k].number : k \in 1..Len(cands)}

\* C3: What rank returns.  Every returned CharacterInfo has a completeness
\* above one half and more than one distinct value, and its character is not
\* mandatory, not omitted from the key, not excluded and has a coding; every
\* character of the matrix that meets all of this is returned, once.
C3_RankEligibility ==
    result.op = "rank" =>
        /\ \A k \in 1..Len(result.candidates) :
              LET ci == result.candidates[k]
              IN /\ ci.number \in CharSet
                 /\ 2 * ci.completeness_num > ci.completeness_den
                 /\ ci.distinct_values > 1
                 /\ ~characters[ci.number].mandatory
                 /\ ~characters[ci.number].omit_from_key
                 /\ ci.number \notin result.exclude
                 /\ \E i \in ItemSet : Row(i, ci.number).kind # "none"
                 /\ ci = CharacterInfo(ci.number)
        /\ \A c \in CharSet :
              (/\ 2 * NonPseudoCodings(c, ItemSet) > TotalCodings(c, ItemSet)
               /\ DistinctValues(c, ItemSet) > 1
               /\ ~characters[c].mandatory
               /\ ~characters[c].omit_from_key
               /\ c \notin result.exclude
               /\ \E i \in ItemSet : Row(i, c).kind # "none")
              => c \in Numbers(result.candidates)
        /\ Cardinality(Numbers(result.candidates)) = Len(result.candidates)

\* A ranking that returns one character and leaves out another one only for
\* its completeness of exactly one half.
C3_Witness ==
    /\ result.op = "rank"
    /\ Len(result.candidates) = 1
    /\ \E c \in CharSet \ (Numbers(result.candidates) \cup result.exclude) :
          /\ characters[c] = Plain
          /\ DistinctValues(c, ItemSet) > 1
          /\ 2 * NonPseudoCodings(c, ItemSet) = TotalCodings(c, ItemSet)

\* C4: The order of rank.  The list is sorted by selectivity_score
\* (distinct_values * coding_completeness) descending, and adjacent entries
\* of equal score by distinct_values descending.
C4_RankOrder ==
    result.op = "rank" =>
        \A k \in 1..(Len(result.candidates) - 1) :
            LET x == result.candidates[k]
                y == result.candidates[k + 1]
                sx == x.distinct_values * x.completeness_num * y.completeness_den
                sy == y.distinct_values * y.completeness_num * x.completeness_den
            IN /\ sx >= sy
               /\ sx = sy => x.distinct_values >= y.distinct_values

\* Two returned characters of equal score and different distinct_values.
C4_Witness ==
    /\ result.op = "rank"
    /\ Len(result.candidates) = 2
    /\ LET x == result.candidates[1]
           y == result.candidates[2]
       IN /\ x.distinct_values * x.completeness_num * y.completeness_den
                = y.distinct_values * y.completeness_num * x.completeness_den
          /\ x.distinct_values > y.distinct_values

\* Two items of S with different non-pseudo codings for character c.
TwoCodedValues(c, S) ==
    \E i \in S : \E j \in S :
        /\ Row(i, c).kind \notin {"none", "pseudo"}
        /\ Row(j, c).kind \notin {"none", "pseudo"}
        /\ Row(i, c) # Row(j, c)

\* C5: Pruning soundness.  Every character returned as a candidate, and so
\* the proposed one, has at least two distinct non-pseudo coded values among
\* exactly the items that survive the chain.
C5_PruningSoundness ==
    FromChain =>
        \A k \in 1..Len(result.candidates) :
            TwoCodedValues(result.candidates[k].number, Survivors(result.chain))

\* A proposal for a chain that has narrowed the items.
C5_Witness ==
    /\ result.op = "propose" /\ result.status = "success"
    /\ result.chain # <<>>
    /\ Cardinality(Survivors(result.chain)) < Len(items)
    /\ result.exclude = {}

\* C6: With at most one surviving item (none included) the candidate list is
\* empty and the proposal is the terminal no_candidates, not a character and
\* not an error.
C6_NoCandidatesForOneItem ==
    (FromChain /\ Cardinality(Survivors(result.chain)) <= 1) =>
        /\ result.candidates = <<>>
        /\ result.op = "propose" => result.status = "no_candidates"

\* One item survives a chain, and a character not used by the chain ranks.
C6_Witness ==
    /\ result.op = "propose" /\ result.status = "no_candidates"
    /\ result.chain # <<>>
    /\ Cardinality(Survivors(result.chain)) = 1
    /\ result.exclude = {}
    /\ CharacterMetrics(UsedCharacters(result.chain)) # {}

\* C7: The proposed character, and every candidate, is neither a character
\* of a clause of the chain nor an excluded character; when every character
\* that could else be proposed for the chain is used or excluded the result is
\* no_candidates.
C7_ProposalExcludesUsed ==
    result.op = "propose" =>
        /\ Numbers(result.candidates) \cap UsedCharacters(result.chain) = {}
        /\ Numbers(result.candidates) \cap result.exclude = {}
        /\ result.status = "success" <=> result.candidates # <<>>
        /\ ({c \in CharSet : /\ Where(c, {})
                             /\ Having(CharacterInfo(c))
                             /\ TwoCodedValues(c, Survivors(result.chain))}
                \subseteq UsedCharacters(result.chain) \cup result.exclude)
              => result.status = "no_candidates"

\* Nothing is proposed because the one character that varies among the
\* surviving items is excluded by the caller.
C7_Witness ==
    /\ result.op = "propose" /\ result.status = "no_candidates"
    /\ result.chain # <<>>
    /\ \E c \in result.exclude \ UsedCharacters(result.chain) :
          /\ Having(CharacterInfo(c))
          /\ TwoCodedValues(c, Survivors(result.chain))

LastClause == result.chain[Len(result.chain)]

Added == result.op = "add_filter" /\ result.status = "success"

\* The states an item is coded with: the one state of an integer coding, the
\* listed states of a multistate coding.
CodedStates(cd) ==
    CASE cd.kind = "integer_value" -> {cd.a}
      [] cd.kind = "state_values" -> SeqRange(cd.st)
      [] OTHER -> {}

\* C8: For a clause whose value is a set of state numbers, an item survives
\* exactly when it has a non-pseudo coding for the character whose coded state
\* set shares a state with the target set.  (Stated for the target sets that
\* the engine does not read as a range, those not of two numbers.)
C8_StateSetIntersection ==
    (Added /\ LastClause[2].kind = "list" /\ Len(LastClause[2].st) # 2) =>
        SeqRange(result.items) =
            {i \in Survivors(Front(result.chain)) :
                CodedStates(Row(i, LastClause[1])) \cap SeqRange(LastClause[2].st) # {}}

\* C9: A clause whose value is not a scalar, a range or a state set is
\* rejected; it never yields an item list.
C9_UnsupportedValueRejected ==
    (result.op = "add_filter" /\ LastClause[2].kind \in {"dict", "strlist"}) =>
        result.status = "error"

\* C10: For a clause whose value is a scalar (Integer, Real or Text) an item
\* survives exactly when it has a scalar coding of that kind equal to it.
ScalarEqual(cd, v) ==
    \/ v.kind = "int" /\ cd.kind = "integer_value" /\ cd.a = v.a
    \/ v.kind = "float" /\ cd.kind = "real_value" /\ cd.a = v.a
    \/ v.kind = "str" /\ cd.kind = "text_value" /\ cd.tx = v.tx

C10_ScalarEquality ==
    (Added /\ LastClause[2].kind \in {"int", "float", "str"}) =>
        SeqRange(result.items) =
            {i \in Survivors(Front(result.chain)) : ScalarEqual(Row(i, LastClause[1]), LastClause[2])}

\* C11: For a clause whose value is a range [lo, hi], an item survives exactly
\* when its non-pseudo coding for the character is a Range (min, max) with
\* min <= hi and max >= lo, or a scalar v with lo <= v <= hi.
InRange(cd, lo, hi) ==
    \/ cd.kind = "range" /\ cd.a <= hi /\ cd.b >= lo
    \/ cd.kind \in {"integer_value", "real_value"} /\ lo <= cd.a /\ cd.a <= hi

RangeClause == Added /\ LastClause[2].kind = "list" /\ Len(LastClause[2].st) = 2

C11_RangeOverlap ==
    RangeClause =>
        SeqRange(result.items) =
            {i \in Survivors(Front(result.chain)) :
                InRange(Row(i, LastClause[1]), LastClause[2].st[1], LastClause[2].st[2])}

\* A range clause that keeps an item whose Range coding touches the target in
\* one point and an item whose scalar coding is one of the bounds, and drops
\* an item coded otherwise.
C11_Witness ==
    /\ RangeClause
    /\ Len(result.chain) = 1
    /\ \E i \in SeqRange(result.items) :
          /\ Row(i, 1).kind = "range"
          /\ Row(i, 1).a = LastClause[2].st[2]
    /\ \E i \in ItemSet \ SeqRange(result.items) : Row(i, 1).kind \in {"range", "real_value"}

\* C12: The item list obtained for a chain is ordered by item name ascending
\* and holds each surviving item exactly once; for the empty chain it is the
\* list of all items, in the same name order.
C12_ItemsByName ==
    FromChain =>
        /\ SeqRange(result.items) = Survivors(result.chain)
        /\ \A k \in 1..(Len(result.items) - 1) :
              NameRank(result.items[k]) < NameRank(result.items[k + 1])

\* C13: Determinism.  A second call of rank with the same exclusion set on
\* the same matrix returns the list the first call returned, the characters
\* that tie on both selectivity_score and distinct_values in the same order.
C13_Determinism ==
    result.op = "rank" =>
        \A again \in get_character_rankings(result.exclude) : again = result.candidates

\* C14: The distinct_values and the coding_completeness of every character
\* returned for a chain are computed from the codings of the items that
\* survive the chain, not from the codings of the other items.
C14_RankOverItemSet ==
    FromChain =>
        \A k \in 1..Len(result.candidates) :
            LET ci == result.candidates[k]
                S == Survivors(result.chain)
            IN /\ ci.distinct_values = DistinctValues(ci.number, S)
               /\ ci.completeness_num * TotalCodings(ci.number, S)
                     = NonPseudoCodings(ci.number, S) * ci.completeness_den

\* The value an item is coded with, as the claim compares values: a scalar by
\* itself, a multistate coding by its set of states, a Range by its pair.
CodedValue(cd) ==
    CASE cd.kind \in {"integer_value", "real_value"} -> <<"number", cd.a>>
      [] cd.kind = "text_value" -> <<"text", cd.tx>>
      [] cd.kind = "state_values" -> <<"states", SeqRange(cd.st)>>
      [] OTHER -> <<"range", cd.a, cd.b>>

NonPseudoCoded(c, S) == {i \in S : HasRow(Row(i, c)) /\ ~IsPseudo(Row(i, c))}

\* C15: distinct_values counts every distinct non-pseudo coded value: two
\* multistate codings are one value exactly when their state sets are equal,
\* two Range codings exactly when their (min, max) pairs are equal, and a
\* Range coding counts like any other value.
C15_DistinctValuesCount ==
    result.op = "rank" =>
        \A k \in 1..Len(result.candidates) :
            LET ci == result.candidates[k]
            IN ci.distinct_values =
                  Cardinality({CodedValue(Row(i, ci.number)) :
                                  i \in NonPseudoCoded(ci.number, ItemSet)})

\* The item set a call of get_character_values was given: all items when no
\* list was passed.
GivenItems(item_numbers) ==
    IF item_numbers = None THEN ItemSet ELSE CHOOSE x \in item_numbers : TRUE

RECURSIVE SumOfCounts(_)
SumOfCounts(vals) ==
    IF vals = <<>> THEN 0 ELSE vals[1].item_count + SumOfCounts(Tail(vals))

\* C16: get_character_values returns, for every item set, the empty one
\* included, one entry per distinct non-pseudo value coded for the character
\* by an item of the set; every item_count is at least 1, the item_counts sum
\* to the number of items of the set with a non-pseudo coding, and an empty
\* item set gives an empty list.
C16_ValuesOfItemSet ==
    result.op = "values" =>
        LET coded == NonPseudoCoded(result.character, GivenItems(result.item_numbers))
        IN /\ Len(result.values) = Cardinality({Row(i, result.character) : i \in coded})
           /\ \A k \in 1..Len(result.values) : result.values[k].item_count >= 1
           /\ SumOfCounts(result.values) = Cardinality(coded)
           /\ GivenItems(result.item_numbers) = {} => result.values = <<>>

\* C17: The list of get_character_values is sorted by item_count descending,
\* and entries of equal item_count by their returned label ascending; the
\* label of a multistate value is its state description when there is one.
C17_ValuesOrder ==
    result.op = "values" =>
        \A k \in 1..(Len(result.values) - 1) :
            LET x == result.values[k]
                y == result.values[k + 1]
            IN /\ x.item_count >= y.item_count
               /\ x.item_count = y.item_count => ~LexLess(y.description, x.description)

Running == result.op \in {"key", "auto"}

\* The call has returned, with no more than max_steps steps, and (for
\* auto_workflow) no more than max_steps filters in the session.
ReturnedWithinMaxSteps ==
    /\ Running
    /\ result.done
    /\ result.op = "key" => Len(result.key_steps) <= result.max_steps
    /\ result.op = "auto" =>
          /\ Len(result.steps) <= result.max_steps
          /\ Len(sessions[result.session].filters) <= result.max_steps

\* C18: generate_identification_key(max_steps) returns, for every matrix and
\* every max_steps >= 0, and with at most max_steps steps; auto_workflow
\* returns as well and has applied at most max_steps filters.
C18_KeyTerminates == Running ~> ReturnedWithinMaxSteps

\* A call that returned because max_steps was reached: items remained to be
\* told apart and a character was left to rank.
C18_Witness ==
    /\ result.op = "key" /\ result.done
    /\ result.max_steps >= 1
    /\ Len(result.key_steps) = result.max_steps
    /\ RemainingItems(result.current_filters) >= 2
    /\ CharacterMetrics(UsedCharacters(result.current_filters)) # {}

\* The clauses chosen in the steps before step k of a key: each step's
\* character with the first of its possible values.
ChosenBefore(key_steps, k) ==
    [j \in 1..(k - 1) |->
        <<key_steps[j].character.number, key_steps[j].possible_values[1].value>>]

\* C19: generate_identification_key records no step once one item or none
\* survives the accumulated chain: every recorded step has remaining_items
\* >= 2, and remaining_items is the number of items surviving the clauses
\* chosen in all earlier steps (all items for the first step).
C19_KeyStepRemaining ==
    result.op = "key" =>
        \A k \in 1..Len(result.key_steps) :
            /\ result.key_steps[k].remaining_items >= 2
            /\ \A j \in 1..(k - 1) : result.key_steps[j].possible_values # <<>>
            /\ result.key_steps[k].remaining_items =
                  IF k = 1 THEN Len(items)
                  ELSE Cardinality(Survivors(ChosenBefore(result.key_steps, k)))

\* A key whose second step was made among fewer items than the matrix has.
C19_Witness ==
    /\ result.op = "key"
    /\ Len(result.key_steps) >= 2
    /\ result.key_steps[2].remaining_items < Len(items)

\* C20: Every step recorded by generate_identification_key uses the character
\* that a proposal gives for the chain accumulated before that step: a
\* character not used in an earlier step that has at least two distinct
\* non-pseudo values among the items surviving that chain.
C20_KeyStepCharacter ==
    result.op = "key" =>
        \A k \in 1..Len(result.key_steps) :
            LET chain == ChosenBefore(result.key_steps, k)
            IN /\ result.key_steps[k].character.number \notin UsedCharacters(chain)
               /\ TwoCodedValues(result.key_steps[k].character.number, Survivors(chain))

\* C21: Every step in the list returned by generate_identification_key has a
\* non-empty possible_values list: its character has at least one non-pseudo
\* coded value among the items remaining at that step.
C21_KeyStepHasValues ==
    (result.op = "key" /\ result.done) =>
        \A k \in 1..Len(result.key_steps) :
            /\ result.key_steps[k].possible_values # <<>>
            /\ NonPseudoCodings(result.key_steps[k].character.number,
                                Survivors(SubSeq(result.current_filters, 1, k - 1))) >= 1

\* A returned key for a matrix of more than one item and max_steps >= 1.
KeyOfSeveralItems ==
    /\ result.op = "key" /\ result.done
    /\ result.max_steps >= 1
    /\ Len(items) > 1

RunsAsSql(chain) == ~ChainRaises(chain)

\* C23: A query of the engine with a clause on a character number that is
\* absent from the matrix returns no matching item and no candidate, and
\* get_character_values for such a character returns the empty list; neither
\* raises (the values being ones the engine builds a query for).
C23_AbsentCharacter ==
    /\ (result.op = "query" /\ AbsentChar \in UsedCharacters(result.chain)
            /\ RunsAsSql(result.chain)) =>
          /\ result.status = "success"
          /\ result.items = <<>>
          /\ result.candidates = <<>>
    /\ (result.op = "values" /\ result.character = AbsentChar) => result.values = <<>>

\* A query on the absent character after a clause that items match.
C23_Witness ==
    /\ result.op = "query" /\ result.status = "success"
    /\ Len(result.chain) = 2
    /\ result.chain[2][1] = AbsentChar
    /\ Survivors(Front(result.chain)) # {}


\* C24: Adding a filter in a session for a character number that is absent
\* from the matrix returns an error status, and the session's filter chain,
\* current items and state file are the same after the call as before it.
C24_AbsentCharacterFilter ==
    [][(/\ result'.op = "add_filter"
        /\ result'.chain[Len(result'.chain)][1] \notin CharSet)
          => /\ result'.status = "error"
             /\ sessions' = sessions
             /\ state_file' = state_file]_vars

\* The error for the absent character, returned to a session that has a
\* filter and a state file.
C24_Witness ==
    /\ result.op = "add_filter" /\ result.status = "error"
    /\ result.chain[Len(result.chain)][1] = AbsentChar
    /\ sessions[result.session].filters # <<>>
    /\ sessions[result.session].current_items # <<>>
    /\ state_file[result.session] # NoFile

\* C25: Undo on a session whose chain has n >= 1 clauses leaves exactly the
\* first n-1 clauses in their order and sets the current items to the items
\* that survive those clauses (all items when none remain), so that an undo
\* after a successful add_filter restores the chain from before the add; undo
\* on an empty chain returns an error status and changes nothing.
C25_Undo ==
    [][result'.op = "undo" =>
         LET sid == result'.session
             before == sessions[sid].filters
         IN IF before = <<>>
            THEN /\ result'.status = "error"
                 /\ sessions' = sessions
                 /\ state_file' = state_file
            ELSE /\ result'.status = "success"
                 /\ sessions'[sid].filters = Front(before)
                 /\ SeqRange(sessions'[sid].current_items) = Survivors(Front(before))
                 /\ Len(sessions'[sid].current_items) = Cardinality(Survivors(Front(before)))
                 /\ (result.op = "add_filter" /\ result.status = "success"
                        /\ result.session = sid)
                       => sessions'[sid].filters = Front(result.chain)]_vars

\* An undo that left one clause, with some but not all items surviving it.
C25_Witness ==
    /\ result.op = "undo" /\ result.status = "success"
    /\ Len(sessions[result.session].filters) = 1
    /\ sessions[result.session].current_items # <<>>
    /\ Len(sessions[result.session].current_items) < Len(items)

C28_CurrentItemsOfChain ==
    (result.op \in {"propose", "add_filter", "undo", "reset", "load", "state"}) =>
        LET fs == sessions[result.session]
        IN /\ SeqRange(fs.current_items) = Survivors(fs.filters)
           /\ to_dict(fs).remaining_count = Cardinality(Survivors(fs.filters))

\* C27: For every chain, and every entry (value, label, item_count) of the
\* possible values returned with the proposal for that chain, the chain
\* extended with the clause (proposed character, value) is survived by
\* exactly item_count items, so by at least one.
C27_ValueCountIsSurvivors ==
    (result.op = "propose" /\ result.status = "success") =>
        \A k \in 1..Len(result.possible_values) :
            LET entry == result.possible_values[k]
                clause == <<result.candidates[1].number, entry.value>>
            IN /\ entry.item_count >= 1
               /\ Cardinality(Survivors(Append(result.chain, clause))) = entry.item_count

\* C29: A list-valued clause that names exactly two state numbers a and b of
\* a multistate character retains only items whose coding contains state a
\* or state b, never an item coded with another state between a and b.
C29_TwoStatesClause ==
    (/\ Added
     /\ LastClause[2].kind = "list" /\ Len(LastClause[2].st) = 2
     /\ CharacterStates(LastClause[1]) # <<>>) =>
        \A i \in SeqRange(result.items) :
            CodedStates(Row(i, LastClause[1])) \cap SeqRange(LastClause[2].st) # {}

\* C30: session isolation.  In any interleaving of requests carrying
\* different session ids, a step of an operation on one session (propose,
\* add filter, undo, reset, automatic workflow) leaves the filter chain, the
\* current items and the state file of every other session as they were,
\* and no step changes the items, the characters or the codings of the
\* matrix.
C30_SessionIsolation ==
    [][/\ items' = items /\ characters' = characters /\ attr' = attr
       /\ DOMAIN sessions' = DOMAIN sessions
       /\ \A sid \in DOMAIN sessions :
             sid # result'.session =>
                 /\ sessions'[sid].filters = sessions[sid].filters
                 /\ sessions'[sid].current_items = sessions[sid].current_items
                 /\ state_file'[sid] = state_file[sid]]_vars

\* A reset of one session has returned while the other session holds a
\* filter chain, current items and a state file of its own.
C30_Witness ==
    /\ result.op = "reset"
    /\ result.session \in DOMAIN sessions
    /\ sessions[result.session].filters = <<>>
    /\ \E sid \in DOMAIN sessions \ {result.session} :
          /\ Len(sessions[sid].filters) = 2
          /\ sessions[sid].current_items # <<>>
          /\ state_file[sid] = _save_state(sessions[sid])

====
